---- MODULE Spec2Model ----
(***************************************************************************)
(* Model of arch_bot_commons::useful_methods (mod.rs).                     *)
(*                                                                         *)
(*   MessageStuff for Message : text_full, get_media_info,                 *)
(*                              find_biggest_photo                         *)
(*   MessageMediaInfo         : is_image(), is_raster()                    *)
(*   FileStuff for File       : is_local                                   *)
(*   BotStuff for Bot         : download_file_to_vec,                      *)
(*                              download_file_to_temp_or_directly          *)
(*                                                                         *)
(* Option<T> is modelled as a sequence: None is <<>>, Some(x) is <<x>>.    *)
(* A Message is a record of its accessors' results; reply_to_message is    *)
(* None or Some(message), so a reply chain is a finite nested record.      *)
(***************************************************************************)
EXTENDS Integers, Sequences, FiniteSets, TLC

None == <<>>
Some(x) == <<x>>

(* ---------------------------------------------------------------------- *)
(* Bounds of the model                                                     *)
(* ---------------------------------------------------------------------- *)
MaxPhotos == 2
MaxDepth == 3
MaxChunks == 2

(* ---------------------------------------------------------------------- *)
(* Input data                                                              *)
(* ---------------------------------------------------------------------- *)
\* FileMeta of the attachment `kind` (variant idx) of the message at reply depth `level`.
File(level, kind, idx) == [id |-> <<level, kind, idx>>]

\* (width, height) pairs of photo variants: two different pairs share the sum 3.
PhotoDims == {<<1, 1>>, <<1, 2>>, <<2, 1>>}

PhotoSeq(level, ds) ==
    [i \in 1..Len(ds) |->
        [width |-> ds[i][1], height |-> ds[i][2], file |-> File(level, "photo", i)]]

DimSeqs == UNION {[1..n -> PhotoDims] : n \in 0..MaxPhotos}

\* Every photo-set of at most MaxPhotos variants, the empty one included.
PhotoSets(level) == {PhotoSeq(level, ds) : ds \in DimSeqs}

Stickers(level) ==
    {[width |-> 5, height |-> 4, is_video |-> v, is_animated |-> a,
      file |-> File(level, "sticker", 1)] : v \in BOOLEAN, a \in BOOLEAN}

Video(level) == [width |-> 6, height |-> 3, file |-> File(level, "video", 1)]

Animation(level) == [width |-> 3, height |-> 6, file |-> File(level, "animation", 1)]

Thumb(level) == [width |-> 2, height |-> 2, file |-> File(level, "thumb", 1)]

VideoNotes(level) ==
    {[thumb |-> t, file |-> File(level, "video_note", 1)] : t \in {None, Some(Thumb(level))}}

Voice(level) == [file |-> File(level, "voice", 1)]

NoMedia ==
    [photo |-> None, sticker |-> None, video |-> None, animation |-> None,
     video_note |-> None, voice |-> None]

Opt(S) == {None} \cup {Some(x) : x \in S}

\* Attachments of a message with at most one media kind.
SingleMedia(level) ==
    {NoMedia}
    \cup {[NoMedia EXCEPT !.photo = Some(ps)] : ps \in PhotoSets(level)}
    \cup {[NoMedia EXCEPT !.sticker = Some(s)] : s \in Stickers(level)}
    \cup {[NoMedia EXCEPT !.video = Some(Video(level))],
          [NoMedia EXCEPT !.animation = Some(Animation(level))],
          [NoMedia EXCEPT !.voice = Some(Voice(level))]}
    \cup {[NoMedia EXCEPT !.video_note = Some(n)] : n \in VideoNotes(level)}

\* Every combination of attachments the accessors can report, over a
\* photo-set that is absent, empty or of one variant.
CombinedMedia(level) ==
    [photo : Opt({PhotoSeq(level, <<>>), PhotoSeq(level, <<<<1, 2>>>>)}),
     sticker : Opt(Stickers(level)),
     video : Opt({Video(level)}),
     animation : Opt({Animation(level)}),
     video_note : Opt(VideoNotes(level)),
     voice : Opt({Voice(level)})]

\* Attachments of a replied-to message: one media kind or none.
ReplyMedia(level) ==
    {NoMedia,
     [NoMedia EXCEPT !.photo = Some(PhotoSeq(level, <<<<2, 1>>>>))],
     [NoMedia EXCEPT !.sticker =
        Some([width |-> 5, height |-> 4, is_video |-> FALSE, is_animated |-> FALSE,
              file |-> File(level, "sticker", 1)])],
     [NoMedia EXCEPT !.video_note = Some([thumb |-> None, file |-> File(level, "video_note", 1)])],
     [NoMedia EXCEPT !.voice = Some(Voice(level))]}

Texts ==
    {[text |-> t, caption |-> c] : t \in Opt({"hello"}), c \in Opt({"world"})}

WithText(a, t, r) ==
    [photo |-> a.photo, sticker |-> a.sticker, video |-> a.video,
     animation |-> a.animation, video_note |-> a.video_note, voice |-> a.voice,
     text |-> t.text, caption |-> t.caption, reply_to_message |-> r]

\* The messages replied to, at reply depth `level` and deeper.
RECURSIVE ReplyChains(_)
ReplyChains(level) ==
    IF level > MaxDepth THEN {None}
    ELSE {None} \cup
         {Some(WithText(a, [text |-> None, caption |-> None], r)) :
             a \in ReplyMedia(level), r \in ReplyChains(level + 1)}

\* The messages handed to the classifier: m is one of them.
IsMessage(m) ==
    \/ \E a \in SingleMedia(1), t \in Texts, r \in ReplyChains(2) :
          m = WithText(a, t, r)
    \/ \E a \in CombinedMedia(1), c \in Opt({"world"}), r \in ReplyChains(2) :
          m = WithText(a, [text |-> None, caption |-> c], r)

(* ---------------------------------------------------------------------- *)
(* MessageMediaInfo                                                        *)
(* ---------------------------------------------------------------------- *)
is_raster(self) == ~self.is_vector_sticker /\ ~self.is_sound

is_image(self) == ~self.is_video /\ is_raster(self)

(* ---------------------------------------------------------------------- *)
(* Message accessors (teloxide getters used by the source)                 *)
(* ---------------------------------------------------------------------- *)
text(self) == self.text
caption(self) == self.caption
photo(self) == self.photo
sticker(self) == self.sticker
video(self) == self.video
animation(self) == self.animation
video_note(self) == self.video_note
voice(self) == self.voice
reply_to_message(self) == self.reply_to_message

(* ---------------------------------------------------------------------- *)
(* MessageStuff for Message                                                *)
(* ---------------------------------------------------------------------- *)
text_full(self) == IF text(self) # None THEN text(self) ELSE caption(self)

\* A fold that keeps the earlier element on equal keys.
RECURSIVE max_by_key_fold_first(_, _, _)
max_by_key_fold_first(xs, i, best) ==
    IF i > Len(xs) THEN best
    ELSE max_by_key_fold_first(xs, i + 1,
            IF xs[i].width + xs[i].height > best.width + best.height THEN xs[i] ELSE best)

\* Iterator::max_by_key: a fold that keeps the later element unless the
\* earlier one has a strictly greater key.
RECURSIVE max_by_key_fold(_, _, _)
max_by_key_fold(xs, i, best) ==
    IF i > Len(xs) THEN best
    ELSE max_by_key_fold(xs, i + 1,
            IF best.width + best.height > xs[i].width + xs[i].height THEN best ELSE xs[i])

find_biggest_photo(self) ==
    IF photo(self) # None
    THEN LET photo_sizes == photo(self)[1]
         IN  IF Len(photo_sizes) = 0 THEN None
             ELSE Some(max_by_key_fold(photo_sizes, 2, photo_sizes[1]))
    ELSE None

\* The descriptors built by the steps of get_media_info.
photo_info(biggest) ==
    [width |-> biggest.width, height |-> biggest.height,
     is_sticker |-> FALSE, is_gif |-> FALSE, is_video |-> FALSE,
     is_image |-> TRUE, is_sound |-> FALSE,
     is_voice_or_video_note |-> FALSE, is_vector_sticker |-> FALSE,
     file |-> biggest.file]

sticker_info_raster_only(st) ==
    [width |-> st.width, height |-> st.height,
     is_sticker |-> TRUE, is_gif |-> FALSE, is_video |-> st.is_video,
     is_sound |-> FALSE, is_image |-> ~st.is_video /\ ~st.is_animated,
     is_voice_or_video_note |-> FALSE, is_vector_sticker |-> FALSE,
     file |-> st.file]

sticker_info(st) ==
    [width |-> st.width, height |-> st.height,
     is_sticker |-> TRUE, is_gif |-> FALSE, is_video |-> st.is_video,
     is_sound |-> FALSE, is_image |-> ~st.is_video /\ ~st.is_animated,
     is_voice_or_video_note |-> FALSE, is_vector_sticker |-> st.is_animated,
     file |-> st.file]

video_info(v) ==
    [width |-> v.width, height |-> v.height,
     is_sticker |-> FALSE, is_gif |-> FALSE, is_video |-> TRUE,
     is_image |-> FALSE, is_sound |-> FALSE,
     is_voice_or_video_note |-> FALSE, is_vector_sticker |-> FALSE,
     file |-> v.file]

animation_info(an) ==
    [width |-> an.width, height |-> an.height,
     is_sticker |-> FALSE, is_video |-> TRUE, is_gif |-> TRUE,
     is_image |-> FALSE, is_sound |-> FALSE,
     is_voice_or_video_note |-> FALSE, is_vector_sticker |-> FALSE,
     file |-> an.file]

video_note_info(vn, thumb) ==
    [width |-> thumb.width, height |-> thumb.height,
     is_sticker |-> FALSE, is_video |-> TRUE, is_gif |-> FALSE,
     is_image |-> FALSE, is_sound |-> FALSE,
     is_voice_or_video_note |-> TRUE, is_vector_sticker |-> FALSE,
     file |-> vn.file]

voice_info(vo) ==
    [width |-> 0, height |-> 0,
     is_sticker |-> FALSE, is_video |-> FALSE, is_gif |-> FALSE,
     is_image |-> FALSE, is_sound |-> TRUE,
     is_voice_or_video_note |-> TRUE, is_vector_sticker |-> FALSE,
     file |-> vo.file]

\* get_media_info with the video step tried before the sticker step.
RECURSIVE get_media_info_video_first(_)
get_media_info_video_first(self) ==
    IF find_biggest_photo(self) # None THEN Some(photo_info(find_biggest_photo(self)[1]))
    ELSE IF video(self) # None THEN Some(video_info(video(self)[1]))
    ELSE IF sticker(self) # None THEN Some(sticker_info(sticker(self)[1]))
    ELSE IF animation(self) # None THEN Some(animation_info(animation(self)[1]))
    ELSE IF video_note(self) # None /\ video_note(self)[1].thumb # None
        THEN Some(video_note_info(video_note(self)[1], video_note(self)[1].thumb[1]))
    ELSE IF voice(self) # None THEN Some(voice_info(voice(self)[1]))
    ELSE IF reply_to_message(self) # None
        THEN get_media_info_video_first(reply_to_message(self)[1])
    ELSE None

\* get_media_info returning at a video-note that has no thumbnail.
RECURSIVE get_media_info_note_stops(_)
get_media_info_note_stops(self) ==
    IF find_biggest_photo(self) # None THEN Some(photo_info(find_biggest_photo(self)[1]))
    ELSE IF sticker(self) # None THEN Some(sticker_info(sticker(self)[1]))
    ELSE IF video(self) # None THEN Some(video_info(video(self)[1]))
    ELSE IF animation(self) # None THEN Some(animation_info(animation(self)[1]))
    ELSE IF video_note(self) # None
        THEN IF video_note(self)[1].thumb # None
             THEN Some(video_note_info(video_note(self)[1], video_note(self)[1].thumb[1]))
             ELSE None
    ELSE IF voice(self) # None THEN Some(voice_info(voice(self)[1]))
    ELSE IF reply_to_message(self) # None
        THEN get_media_info_note_stops(reply_to_message(self)[1])
    ELSE None

\* get_media_info looking one reply up only: the reply target's own
\* attachments are classified, its reply target is not followed.
RECURSIVE get_media_info_one_level(_, _)
get_media_info_one_level(self, follow) ==
    IF find_biggest_photo(self) # None THEN Some(photo_info(find_biggest_photo(self)[1]))
    ELSE IF sticker(self) # None THEN Some(sticker_info(sticker(self)[1]))
    ELSE IF video(self) # None THEN Some(video_info(video(self)[1]))
    ELSE IF animation(self) # None THEN Some(animation_info(animation(self)[1]))
    ELSE IF video_note(self) # None /\ video_note(self)[1].thumb # None
        THEN Some(video_note_info(video_note(self)[1], video_note(self)[1].thumb[1]))
    ELSE IF voice(self) # None THEN Some(voice_info(voice(self)[1]))
    ELSE IF follow /\ reply_to_message(self) # None
        THEN get_media_info_one_level(reply_to_message(self)[1], FALSE)
    ELSE None

get_media_info_shallow(self) == get_media_info_one_level(self, TRUE)

\* get_media_info returning at the photo step whenever a photo-set is
\* present, also when it is empty.
RECURSIVE get_media_info_photo_stops(_)
get_media_info_photo_stops(self) ==
    IF photo(self) # None THEN
        IF find_biggest_photo(self) # None
        THEN Some(photo_info(find_biggest_photo(self)[1]))
        ELSE None
    ELSE IF sticker(self) # None THEN Some(sticker_info(sticker(self)[1]))
    ELSE IF video(self) # None THEN Some(video_info(video(self)[1]))
    ELSE IF animation(self) # None THEN Some(animation_info(animation(self)[1]))
    ELSE IF video_note(self) # None /\ video_note(self)[1].thumb # None
        THEN Some(video_note_info(video_note(self)[1], video_note(self)[1].thumb[1]))
    ELSE IF voice(self) # None THEN Some(voice_info(voice(self)[1]))
    ELSE IF reply_to_message(self) # None
        THEN get_media_info_photo_stops(reply_to_message(self)[1])
    ELSE None

RECURSIVE get_media_info(_)
get_media_info(self) ==
    IF find_biggest_photo(self) # None THEN
        Some(photo_info(find_biggest_photo(self)[1]))
    ELSE IF sticker(self) # None THEN
        Some(sticker_info(sticker(self)[1]))
    ELSE IF video(self) # None THEN
        Some(video_info(video(self)[1]))
    ELSE IF animation(self) # None THEN
        Some(animation_info(animation(self)[1]))
    ELSE IF video_note(self) # None /\ video_note(self)[1].thumb # None THEN
        Some(video_note_info(video_note(self)[1], video_note(self)[1].thumb[1]))
    ELSE IF voice(self) # None THEN
        Some(voice_info(voice(self)[1]))
    ELSE IF reply_to_message(self) # None THEN
        get_media_info(reply_to_message(self)[1])
    ELSE None

(* ---------------------------------------------------------------------- *)
(* Files: paths, stream chunks, file system                                *)
(* ---------------------------------------------------------------------- *)
\* A path is its sequence of components; an absolute one starts at the root.
LocalPath == <<"/", "var", "lib", "telegram-bot-api", "file_0">>
RemotePath == <<"photos", "file_0">>
TempPath == <<"/", "tmp", ".tmpA">>

Chunks == {<<1>>, <<2, 3>>}

ChunkSeqs == UNION {[1..n -> Chunks] : n \in 0..MaxChunks}

RECURSIVE Flatten(_)
Flatten(cs) == IF cs = <<>> THEN <<>> ELSE Head(cs) \o Flatten(Tail(cs))

Prefixes(bytes) == {SubSeq(bytes, 1, k) : k \in 0..Len(bytes)}

\* The FileMeta handed to both download operations.
TheFile == File(1, "photo", 1)

\* Path::is_absolute on the resolved path.
is_local(file) == Len(file.path) > 0 /\ file.path[1] = "/"

\* Vec::extend_from_slice overwriting the buffer instead of appending.
extend_from_slice_assign(to, bytes) == bytes

\* Vec::extend_from_slice
extend_from_slice(to, bytes) == to \o bytes

\* A read that replaces the buffer by the file's content.
read_to_end_assign(to, content) == content

\* Read::read_to_end, when every read succeeds: the whole content is appended.
read_to_end(to, content) == to \o content

\* A temporary file that is persisted: dropping its handle leaves it on disk.
drop_tempfile_keep(d) == d

\* Drop of the NamedTempFile: the file at its path is deleted.
drop_tempfile(d) == [d EXCEPT ![TempPath] = None]

(* ---------------------------------------------------------------------- *)
(* State                                                                   *)
(* ---------------------------------------------------------------------- *)
VARIABLES
    msg,        \* the Message the caller holds
    cpc,        \* the caller's position in its sequence of classifier calls
    biggest,    \* result of msg.find_biggest_photo()
    info,       \* result of msg.get_media_info()
    derived,    \* result of info.is_image() and info.is_raster(), once called
    fulltext,   \* result of msg.text_full()
    stored,     \* the File record get_file resolves TheFile to: [path, size]
    server,     \* the chunks the download stream of a remote path yields
    disk,       \* local file system: path -> None | Some(content)
    to,         \* download_file_to_vec: the caller's buffer
    to0,        \* the buffer's content before the call
    vpc,        \* download_file_to_vec: position
    vret,       \* download_file_to_vec: "none" (running), "Ok" or "Err"
    vidx,       \* download_file_to_vec: chunks taken from the stream
    tpc,        \* download_file_to_temp_or_directly: position
    tout,       \* its outcome: [status, path, tempfile]
    owner,      \* who holds the NamedTempFile: "none", "op", "caller", "dropped"
    created,    \* a temporary file has been created by the operation
    inflight,   \* tokio::fs::File: the write handed to the blocking pool
    tidx,       \* download_file: chunks taken from the stream
    readback    \* what the caller read from the returned path

cvars == <<msg, cpc, biggest, info, derived, fulltext>>

fvars == <<stored, server, disk, to, to0, vpc, vret, vidx,
           tpc, tout, owner, created, inflight, tidx, readback>>

vars == <<cvars, fvars>>

NoDerived == [is_image |-> FALSE, is_raster |-> FALSE]

NoOutcome == [status |-> "none", path |-> <<>>, tempfile |-> None]

\* Classifier side before any call.
ClassifierInit ==
    /\ cpc = "start"
    /\ biggest = None
    /\ info = None
    /\ derived = NoDerived
    /\ fulltext = None

\* File side before any call: TheFile resolves to `path`, its content is
\* the chunks cs, the caller's buffer holds prior.
FilesInit(paths, streams, priors) ==
    /\ \E path \in paths, cs \in streams :
          /\ stored = [path |-> path, size |-> Len(Flatten(cs))]
          /\ server = IF path = RemotePath THEN cs ELSE <<>>
          /\ disk = [q \in {LocalPath, TempPath} |->
                        IF q = LocalPath /\ path = LocalPath THEN Some(Flatten(cs)) ELSE None]
    /\ to0 \in priors
    /\ to = to0
    /\ vpc = "start"
    /\ vret = "none"
    /\ vidx = 0
    /\ tpc = "start"
    /\ tout = NoOutcome
    /\ owner = "none"
    /\ created = FALSE
    /\ inflight = None
    /\ tidx = 0
    /\ readback = None

(* ---------------------------------------------------------------------- *)
(* The caller of the classifier                                            *)
(* ---------------------------------------------------------------------- *)
Init ==
    /\ IsMessage(msg)
    /\ ClassifierInit
    /\ FilesInit({LocalPath}, {<<>>}, {<<>>})

CallFindBiggestPhoto ==
    /\ cpc = "start"
    /\ biggest' = find_biggest_photo(msg)
    /\ cpc' = "photo_done"
    /\ UNCHANGED <<msg, info, derived, fulltext, fvars>>

CallGetMediaInfo ==
    /\ cpc = "photo_done"
    /\ info' = get_media_info(msg)
    /\ cpc' = "classified"
    /\ UNCHANGED <<msg, biggest, derived, fulltext, fvars>>

CallIsImage ==
    /\ cpc = "classified"
    /\ info # None
    /\ derived' = [is_image |-> is_image(info[1]), is_raster |-> is_raster(info[1])]
    /\ cpc' = "derived"
    /\ UNCHANGED <<msg, biggest, info, fulltext, fvars>>

CallTextFull ==
    /\ cpc \in {"classified", "derived"}
    /\ fulltext' = text_full(msg)
    /\ cpc' = "done"
    /\ UNCHANGED <<msg, biggest, info, derived, fvars>>

Next ==
    \/ CallFindBiggestPhoto
    \/ CallGetMediaInfo
    \/ CallIsImage
    \/ CallTextFull

Spec == Init /\ [][Next]_vars

(* ---------------------------------------------------------------------- *)
(* BotStuff::download_file_to_vec                                          *)
(* ---------------------------------------------------------------------- *)
vecvars == <<to, vpc, vret, vidx>>

tempvars == <<disk, tpc, tout, owner, created, inflight, tidx, readback>>

envvars == <<stored, server, to0, cvars>>

\* let file = self.get_file(&file.id).await?;  to.reserve_exact(..) changes
\* the buffer's capacity only.
VecGetFile ==
    /\ vpc = "start"
    /\ \/ /\ vpc' = IF is_local(stored) THEN "local" ELSE "stream"
          /\ UNCHANGED vret
       \/ /\ vpc' = "done"
          /\ vret' = "Err"
    /\ UNCHANGED <<to, vidx, tempvars, envvars>>

\* File::open(&file.path)?; file.read_to_end(to)?;
VecReadLocal ==
    /\ vpc = "local"
    /\ vpc' = "done"
    /\ \/ /\ disk[stored.path] # None
          /\ to' = read_to_end(to, disk[stored.path][1])
          /\ vret' = "Ok"
       \/ \* open fails: nothing is read
          /\ to' = to
          /\ vret' = "Err"
       \/ \* a read fails: the bytes read before it stay appended
          /\ disk[stored.path] # None
          /\ \E part \in Prefixes(disk[stored.path][1]) :
                /\ part # disk[stored.path][1]
                /\ to' = to \o part
          /\ vret' = "Err"
    /\ UNCHANGED <<vidx, tempvars, envvars>>

\* while let Some(bytes) = stream.try_next().await? { to.extend_from_slice(&bytes); }
VecNextChunk ==
    /\ vpc = "stream"
    /\ \/ /\ vidx < Len(server)
          /\ to' = extend_from_slice(to, server[vidx + 1])
          /\ vidx' = vidx + 1
          /\ UNCHANGED <<vpc, vret>>
       \/ \* the stream fails here
          /\ vpc' = "done"
          /\ vret' = "Err"
          /\ UNCHANGED <<to, vidx>>
       \/ /\ vidx = Len(server)
          /\ vpc' = "done"
          /\ vret' = "Ok"
          /\ UNCHANGED <<to, vidx>>
    /\ UNCHANGED <<tempvars, envvars>>

(* ---------------------------------------------------------------------- *)
(* BotStuff::download_file_to_temp_or_directly                             *)
(* ---------------------------------------------------------------------- *)
\* An error return (the ? operator): the locals go out of scope, the
\* NamedTempFile among them if it was created.
TempFail ==
    /\ tpc' = "done"
    /\ tout' = [status |-> "Err", path |-> <<>>, tempfile |-> None]
    /\ IF owner = "op"
       THEN owner' = "dropped" /\ disk' = drop_tempfile(disk)
       ELSE UNCHANGED <<owner, disk>>

\* let file = self.get_file(&file.id).await?;
TempGetFile ==
    /\ tpc = "start"
    /\ \/ /\ tpc' = IF is_local(stored) THEN "local" ELSE "create"
          /\ UNCHANGED <<tout, owner, disk>>
       \/ TempFail
    /\ UNCHANGED <<created, inflight, tidx, readback, vecvars, envvars>>

\* Ok((PathBuf::from(file.path), None))
TempReturnLocal ==
    /\ tpc = "local"
    /\ tpc' = "done"
    /\ tout' = [status |-> "Ok", path |-> stored.path, tempfile |-> None]
    /\ UNCHANGED <<disk, owner, created, inflight, tidx, readback, vecvars, envvars>>

\* let tempfile = tempfile::NamedTempFile::new()?;
TempCreate ==
    /\ tpc = "create"
    /\ \/ /\ disk' = [disk EXCEPT ![TempPath] = Some(<<>>)]
          /\ owner' = "op"
          /\ created' = TRUE
          /\ tpc' = "reopen"
          /\ UNCHANGED tout
       \/ TempFail /\ UNCHANGED created
    /\ UNCHANGED <<inflight, tidx, readback, vecvars, envvars>>

\* let reopened = tempfile.reopen()?;  tokio::fs::File::from_std(reopened)
TempReopen ==
    /\ tpc = "reopen"
    /\ \/ /\ tpc' = "download"
          /\ UNCHANGED <<tout, owner, disk>>
       \/ TempFail
    /\ UNCHANGED <<created, inflight, tidx, readback, vecvars, envvars>>

\* self.download_file(&file.path, &mut tokio_file).await?  One turn of its
\* loop: the next chunk is handed to the tokio File, whose write returns
\* once the data is handed to the blocking pool and which first waits for
\* the write handed over before; or the stream fails.
TempWriteChunk ==
    /\ tpc = "download"
    /\ \/ /\ tidx < Len(server)
          /\ inflight = None
          /\ inflight' = Some(server[tidx + 1])
          /\ tidx' = tidx + 1
          /\ UNCHANGED <<tpc, tout, owner, disk>>
       \/ TempFail /\ UNCHANGED <<inflight, tidx>>
    /\ UNCHANGED <<created, readback, vecvars, envvars>>

\* The stream has ended: download_file returns without flushing the
\* tokio File, and Ok((tempfile.path().to_path_buf(), Some(tempfile))) hands
\* the NamedTempFile to the caller.
TempReturnRemote ==
    /\ tpc = "download"
    /\ tidx = Len(server)
    /\ tpc' = "done"
    /\ tout' = [status |-> "Ok", path |-> TempPath, tempfile |-> Some(TempPath)]
    /\ owner' = "caller"
    /\ UNCHANGED <<disk, created, inflight, tidx, readback, vecvars, envvars>>

\* The blocking pool performs the write handed to it. A write to a file
\* already deleted goes to the unlinked file and shows at no path.
BackgroundWrite ==
    /\ inflight # None
    /\ inflight' = None
    /\ disk' = IF disk[TempPath] # None
               THEN [disk EXCEPT ![TempPath] = Some(disk[TempPath][1] \o inflight[1])]
               ELSE disk
    /\ UNCHANGED <<tpc, tout, owner, created, tidx, readback, vecvars, envvars>>

\* The calling context drops the future at one of its await points.
TempCancel ==
    /\ tpc \in {"start", "download"}
    /\ tpc' = "done"
    /\ tout' = [status |-> "Cancelled", path |-> <<>>, tempfile |-> None]
    /\ IF owner = "op"
       THEN owner' = "dropped" /\ disk' = drop_tempfile(disk)
       ELSE UNCHANGED <<owner, disk>>
    /\ UNCHANGED <<created, inflight, tidx, readback, vecvars, envvars>>

\* The caller reads the file at the returned path, holding the handle.
ReadPath ==
    /\ tout.status = "Ok"
    /\ owner \in {"none", "caller"}
    /\ readback = None
    /\ disk[tout.path] # None
    /\ readback' = Some(disk[tout.path][1])
    /\ UNCHANGED <<disk, tpc, tout, owner, created, inflight, tidx, vecvars, envvars>>

\* The caller releases the handle it was returned.
ReleaseHandle ==
    /\ owner = "caller"
    /\ owner' = "dropped"
    /\ disk' = drop_tempfile(disk)
    /\ UNCHANGED <<tpc, tout, created, inflight, tidx, readback, vecvars, envvars>>

FileInit ==
    /\ msg = WithText(NoMedia, [text |-> None, caption |-> None], None)
    /\ ClassifierInit
    /\ FilesInit({LocalPath, RemotePath}, ChunkSeqs, {<<>>, <<9>>})

FileNext ==
    \/ VecGetFile
    \/ VecReadLocal
    \/ VecNextChunk
    \/ TempGetFile
    \/ TempReturnLocal
    \/ TempCreate
    \/ TempReopen
    \/ TempWriteChunk
    \/ TempReturnRemote
    \/ BackgroundWrite
    \/ TempCancel
    \/ ReadPath
    \/ ReleaseHandle

FileSpec == FileInit /\ [][FileNext]_vars

(* ---------------------------------------------------------------------- *)
(* Properties of the classifier                                            *)
(* ---------------------------------------------------------------------- *)
Sum(p) == p.width + p.height

IsMaxSum(p, ps) == \A j \in 1..Len(ps) : Sum(ps[j]) <= Sum(p)

FirstMaxIdx(ps) ==
    CHOOSE i \in 1..Len(ps) : IsMaxSum(ps[i], ps) /\ \A j \in 1..(i - 1) : Sum(ps[j]) < Sum(ps[i])

LastMaxIdx(ps) ==
    CHOOSE i \in 1..Len(ps) : IsMaxSum(ps[i], ps) /\ \A j \in (i + 1)..Len(ps) : Sum(ps[j]) < Sum(ps[i])

HasPhoto(m) == m.photo # None /\ Len(m.photo[1]) > 0

HasThumbNote(m) == m.video_note # None /\ m.video_note[1].thumb # None

HasDirectMedia(m) ==
    \/ HasPhoto(m)
    \/ m.sticker # None
    \/ m.video # None
    \/ m.animation # None
    \/ HasThumbNote(m)
    \/ m.voice # None

PhotoCalled == cpc # "start"

Classified == cpc \in {"classified", "derived", "done"}

Descriptor(w, h, st, gif, vid, img, snd, vvn, vec, f) ==
    [width |-> w, height |-> h, is_sticker |-> st, is_gif |-> gif, is_video |-> vid,
     is_image |-> img, is_sound |-> snd, is_voice_or_video_note |-> vvn,
     is_vector_sticker |-> vec, file |-> f]

\* C1 as stated: for a non-empty photo-set find_biggest_photo returns a
\* variant of maximal width+height, and on ties the FIRST such variant in
\* the set's order.
C1_FirstMaximumWins ==
    (PhotoCalled /\ HasPhoto(msg)) =>
        /\ biggest # None
        /\ IsMaxSum(biggest[1], msg.photo[1])
        /\ biggest[1] = msg.photo[1][FirstMaxIdx(msg.photo[1])]

\* C1 amended: for a non-empty photo-set find_biggest_photo returns a
\* variant of maximal width+height, and on ties the LAST such variant in
\* the set's order.
C1_LastMaximumWins ==
    (PhotoCalled /\ HasPhoto(msg)) =>
        /\ biggest # None
        /\ IsMaxSum(biggest[1], msg.photo[1])
        /\ biggest[1] = msg.photo[1][LastMaxIdx(msg.photo[1])]

C1_Witness ==
    /\ PhotoCalled
    /\ HasPhoto(msg)
    /\ FirstMaxIdx(msg.photo[1]) # LastMaxIdx(msg.photo[1])
    /\ biggest = Some(msg.photo[1][LastMaxIdx(msg.photo[1])])

WithoutVideoNote(m) == [m EXCEPT !.video_note = None]

\* C6: a message whose video-note has no thumbnail is classified exactly
\* as the same message without the video-note: with no attachment of a
\* higher step it yields the voice descriptor if a voice clip is present,
\* otherwise the reply target's classification, otherwise None.
C6_ThumblessNoteFallsThrough ==
    (Classified /\ msg.video_note # None /\ msg.video_note[1].thumb = None) =>
        /\ info = get_media_info(WithoutVideoNote(msg))
        /\ (~HasDirectMedia(WithoutVideoNote(msg)) \/ msg.voice # None) =>
              \/ HasPhoto(msg) \/ msg.sticker # None \/ msg.video # None \/ msg.animation # None
              \/ IF msg.voice # None
                 THEN info = Some(Descriptor(0, 0, FALSE, FALSE, FALSE, FALSE, TRUE, TRUE, FALSE,
                                             msg.voice[1].file))
                 ELSE IF msg.reply_to_message # None
                 THEN info = get_media_info(msg.reply_to_message[1])
                 ELSE info = None

C6_Witness ==
    /\ Classified
    /\ msg.video_note # None
    /\ msg.video_note[1].thumb = None
    /\ ~HasPhoto(msg) /\ msg.sticker = None /\ msg.video = None /\ msg.animation = None
    /\ msg.voice # None
    /\ info # None
    /\ info[1].is_sound
    /\ info[1].file = msg.voice[1].file

\* The nearest message up the reply chain, the message itself included,
\* that has directly classifiable media.
RECURSIVE NearestWithMedia(_)
NearestWithMedia(m) ==
    IF HasDirectMedia(m) THEN Some(m)
    ELSE IF m.reply_to_message = None THEN None
    ELSE NearestWithMedia(m.reply_to_message[1])

RECURSIVE ChainLength(_)
ChainLength(m) ==
    IF m.reply_to_message = None THEN 1 ELSE 1 + ChainLength(m.reply_to_message[1])

WithoutReply(m) == [m EXCEPT !.reply_to_message = None]

\* C7: for a message without directly classifiable media that replies to
\* another message, get_media_info returns the reply target's result
\* unchanged, which on a reply chain of any depth is the classification
\* of the nearest ancestor with directly classifiable media, or None if
\* there is none.
C7_ReplyChainRecursion ==
    (Classified /\ ~HasDirectMedia(msg) /\ msg.reply_to_message # None) =>
        /\ info = get_media_info(msg.reply_to_message[1])
        /\ info = IF NearestWithMedia(msg) = None THEN None
                  ELSE get_media_info(WithoutReply(NearestWithMedia(msg)[1]))
        /\ (NearestWithMedia(msg) = None) = (info = None)

C7_Witness ==
    /\ Classified
    /\ ~HasDirectMedia(msg)
    /\ msg.reply_to_message # None
    /\ ~HasDirectMedia(msg.reply_to_message[1])
    /\ ChainLength(msg) >= 3
    /\ NearestWithMedia(msg) # None
    /\ HasPhoto(NearestWithMedia(msg)[1])
    /\ info # None
    /\ info[1].file = NearestWithMedia(msg)[1].photo[1][1].file

WithoutPhoto(m) == [m EXCEPT !.photo = None]

\* C10: a message whose photo-set is present but empty is treated as
\* having no photo: find_biggest_photo returns None and get_media_info
\* goes on with the later steps as for the message without a photo-set.
C10_EmptyPhotoSetFallsThrough ==
    (msg.photo = Some(<<>>)) =>
        /\ PhotoCalled => biggest = None
        /\ Classified =>
              /\ info = get_media_info(WithoutPhoto(msg))
              /\ HasDirectMedia(WithoutPhoto(msg)) => info # None
              /\ msg.sticker # None =>
                    (info # None /\ info[1].is_sticker /\ info[1].file = msg.sticker[1].file)
              /\ (~HasDirectMedia(WithoutPhoto(msg)) /\ msg.reply_to_message = None) =>
                    info = None

C10_Witness ==
    /\ Classified
    /\ msg.photo = Some(<<>>)
    /\ msg.sticker # None
    /\ biggest = None
    /\ info # None
    /\ info[1].is_sticker

(* ---------------------------------------------------------------------- *)
(* Properties of the download operations                                   *)
(* ---------------------------------------------------------------------- *)
\* The content TheFile stands for.
Content == IF is_local(stored) THEN disk[stored.path][1] ELSE Flatten(server)

\* C2 as stated: when download_file_to_vec returns an error, the chunks
\* received before the failure are discarded, not left appended to the
\* caller's buffer.
C2_PartialDownloadDiscarded ==
    vret = "Err" => to = to0

\* C2 amended: download_file_to_vec returns Ok only after the whole content
\* was appended to the buffer; when it returns an error the buffer holds
\* its prior content followed by what was received before the failure
\* (for a remote file exactly the chunks taken from the stream), which is
\* not removed.
C2_PartialDownloadKept ==
    /\ vret = "Ok" => to = to0 \o Content
    /\ vret = "Err" =>
          /\ \E part \in Prefixes(Content) : to = to0 \o part
          /\ ~is_local(stored) => to = to0 \o Flatten(SubSeq(server, 1, vidx))

C2_Witness ==
    /\ vret = "Err"
    /\ ~is_local(stored)
    /\ vidx >= 1
    /\ vidx < Len(server)
    /\ to0 # <<>>
    /\ to = to0 \o server[1]

\* C3: for a remote file, once download_file_to_temp_or_directly has
\* returned successfully and while the caller holds the returned handle,
\* the file at the returned path holds exactly the concatenation of all
\* streamed chunks in arrival order.
C3_TempFileHoldsAllChunks ==
    (tout.status = "Ok" /\ ~is_local(stored) /\ owner = "caller") =>
        disk[tout.path] = Some(Flatten(server))

\* C4: a temporary file created by download_file_to_temp_or_directly
\* exists only while a live handle owns it: it is gone after an error
\* return, after the operation is abandoned, and after the caller
\* releases the handle; for a local file none is created and no handle is
\* returned.
C4_TempFileAlwaysOwned ==
    /\ disk[TempPath] # None => owner \in {"op", "caller"}
    /\ tout.status \in {"Err", "Cancelled"} => (disk[TempPath] = None /\ owner # "caller")
    /\ owner = "dropped" => disk[TempPath] = None
    /\ (tout.status = "Ok" /\ ~is_local(stored)) =>
          (created /\ tout.tempfile # None /\ (owner = "caller" => disk[tout.path] # None))
    /\ is_local(stored) =>
          /\ ~created
          /\ owner = "none"
          /\ tout.status = "Ok" => (tout.tempfile = None /\ tout.path = stored.path)

C4_Witness ==
    /\ created
    /\ tout.status = "Err"
    /\ tidx >= 1
    /\ tidx < Len(server)
    /\ owner = "dropped"
    /\ disk[TempPath] = None

BothDoneLocal ==
    /\ is_local(stored)
    /\ vret = "Ok"
    /\ tout.status = "Ok"
    /\ readback # None

\* C8 as stated: for a local file, the content download_file_to_vec leaves
\* in the caller's buffer is byte-identical to the content read from the
\* path download_file_to_temp_or_directly returns.
C8_BufferEqualsFile ==
    BothDoneLocal => to = readback[1]

\* C8 amended: for a local file, the bytes download_file_to_vec appends to
\* the caller's buffer, after the content the buffer held before the
\* call, are byte-identical to the content read from the path
\* download_file_to_temp_or_directly returns.
C8_AppendedEqualsFile ==
    BothDoneLocal => to = to0 \o readback[1]

C8_Witness ==
    /\ BothDoneLocal
    /\ to0 # <<>>
    /\ Len(readback[1]) > 1
    /\ to = to0 \o readback[1]

====
